---- MODULE Spec2Model ----
(***************************************************************************)
(* Model of the Zygisk Rust bindings (API v4): the module entry point and  *)
(* its registration handshake (src/src/macros.rs), the ZygiskApi handle    *)
(* and its eight operations over the optional slots of the raw API table   *)
(* (src/src/api.rs), and the companion entry point (src/src/macros.rs).    *)
(* The host (Zygisk/Magisk) is the environment: every value it returns is  *)
(* a nondeterministic choice within what api.rs documents for it.          *)
(***************************************************************************)
EXTENDS Integers, Sequences, FiniteSets, TLC

\* ---------------------------------------------------------------- bounds
MaxFd == 1          \* descriptors the host hands out are 0..MaxFd
FlagWidth == 3      \* width of the raw flag word the host returns
MaxMethods == 2     \* longest JNINativeMethod list passed to the hook
NumHooks == 2       \* distinct PLT hook entries an author registers
NumConn == 2        \* concurrent companion connections
NumCompanionFds == 3 \* descriptors the companion daemon can have open

\* ------------------------------------------------------- raw ABI model
HandleSlots == {"connect_companion", "get_module_dir", "set_option",
                "get_flags", "exempt_fd", "hook_jni_native_methods",
                "plt_hook_register", "plt_hook_commit"}

Slots == HandleSlots \cup {"register_module"}

\* A raw table is the presence (Some/None) of each function-pointer slot.
\* Every consumer reads only its own slot, so the tables considered are the
\* full one, the empty one and those with exactly one slot absent.
Tables == {t \in [Slots -> BOOLEAN] :
              \/ \A s \in Slots : ~t[s]
              \/ \E s \in Slots : \A u \in Slots \ {s} : t[u]}

PROCESS_GRANTED_ROOT == 1
PROCESS_ON_DENYLIST == 2

StateFlagsAll == {PROCESS_GRANTED_ROOT, PROCESS_ON_DENYLIST}

ZygiskOptions == {"ForceDenylistUnmount", "DlcloseModuleLibrary"}

RECURSIVE Pow2(_)
Pow2(n) == IF n = 0 THEN 1 ELSE 2 * Pow2(n - 1)

RawFlagWords == 0 .. (Pow2(FlagWidth) - 1)

\* The single-bit values set in a raw word.
BitsOf(raw) == {Pow2(i) : i \in {j \in 0 .. (FlagWidth - 1) : (raw \div Pow2(j)) % 2 = 1}}

HostFds == -1 .. MaxFd

Hooks == 1 .. NumHooks

VARIABLES
    table,        \* the host's RawApiTable: slot presence
    pc,           \* position of the worker process in its lifecycle
    env,          \* the JNIEnv pointer passed to the entry: "null" or "valid"
    leaked,       \* heap allocations leaked by the entry (Box::leak)
    registerCalls,\* times the host's register_module slot was invoked
    registered,   \* result of register_module: "none", "ok", "refused"
    onLoadCalls,  \* times the author's on_load was invoked
    entryReturned,\* the module entry returned normally to the host
    scopedLive,   \* live ZygiskApi handles with a callback-scoped lifetime
    retained,     \* the author holds a ZygiskApi<'static> from retain()
    staleUse,     \* kind of handle used after post-specialize returned
    pltBuffer,    \* host side: PLT hook entries registered, not committed
    pltInstalled, \* host side: PLT hook entries in effect
    last,         \* the most recent operation and its outcome
    cpc,          \* companion: position of each connection's thread
    socket_fd,    \* companion: descriptor passed to each invocation
    stream,       \* companion: descriptor wrapped by each invocation's stream
    observed,     \* companion: descriptor each handler saw
    faulted,      \* companion: the handler of this invocation panicked
    openFds,      \* companion: descriptors open in the daemon
    cAborted      \* companion: the daemon process aborted

mvars == <<table, pc, env, leaked, registerCalls, registered, onLoadCalls,
           entryReturned, scopedLive, retained, staleUse,
           pltBuffer, pltInstalled, last>>

cvars == <<cpc, socket_fd, stream, observed, faulted, openFds, cAborted>>

vars == <<table, pc, env, leaked, registerCalls, registered, onLoadCalls,
          entryReturned, scopedLive, retained, staleUse,
          pltBuffer, pltInstalled, last,
          cpc, socket_fd, stream, observed, faulted, openFds, cAborted>>

Conns == 1 .. NumConn

CompanionFds == 1 .. NumCompanionFds

NoOp == [op |-> "none", phase |-> "none", host |-> "none", arg |-> 0, ret |-> 0, aux |-> 0, panic |-> FALSE]

\* What an operation did: the phase it ran in, the host function it invoked
\* ("none" when it invoked none), its argument, its result, and whether it
\* panicked.
Outcome(o, h, a, r, x, p) ==
    [op |-> o, phase |-> pc, host |-> h, arg |-> a, ret |-> r, aux |-> x, panic |-> p]

Init ==
    /\ table \in Tables
    /\ pc = "Unregistered"
    /\ env = "valid"
    /\ leaked = 0
    /\ registerCalls = 0
    /\ registered = "none"
    /\ onLoadCalls = 0
    /\ entryReturned = FALSE
    /\ scopedLive = 0
    /\ retained = FALSE
    /\ staleUse = "none"
    /\ pltBuffer = {}
    /\ pltInstalled = {}
    /\ last = NoOp
    /\ cpc = [c \in Conns |-> "idle"]
    /\ socket_fd = [c \in Conns |-> 0]
    /\ stream = [c \in Conns |-> 0]
    /\ observed = [c \in Conns |-> 0]
    /\ faulted = [c \in Conns |-> FALSE]
    /\ openFds = {}
    /\ cAborted = FALSE

\* ------------------------------------------------- module entry point

\* zygisk_module_entry(table, env) is called by the host; module_entry_impl
\* leaks the RawModule allocation first.
ModuleEntry(e) ==
    /\ pc = "Unregistered"
    /\ pc' = "entry"
    /\ env' = e
    /\ leaked' = leaked + 1
    /\ UNCHANGED <<table, registerCalls, registered, onLoadCalls, entryReturned,
                   scopedLive, retained, staleUse, pltBuffer, pltInstalled, last>>
    /\ UNCHANGED cvars

\* JNIEnv::from_raw(env.cast()).unwrap(): a null env pointer panics.
CastArgs ==
    /\ pc = "entry"
    /\ IF env = "null"
       THEN /\ pc' = "panicking"
            /\ last' = Outcome("cast_env", "none", env, 0, 0, TRUE)
       ELSE /\ pc' = "cast"
            /\ last' = Outcome("cast_env", "none", env, 0, 0, FALSE)
    /\ UNCHANGED <<table, env, leaked, registerCalls, registered, onLoadCalls,
                   entryReturned, scopedLive, retained, staleUse,
                   pltBuffer, pltInstalled>>
    /\ UNCHANGED cvars

\* The ModuleAbi is leaked, then table.register_module.unwrap()(table, abi):
\* an absent slot panics on the unwrap, a present one returns the host's
\* verdict.
RegisterModule ==
    /\ pc = "cast"
    /\ leaked' = leaked + 1
    /\ IF table["register_module"]
       THEN \E ok \in BOOLEAN :
               /\ registerCalls' = registerCalls + 1
               /\ registered' = IF ok THEN "ok" ELSE "refused"
               /\ pc' = "registered"
               /\ last' = Outcome("register_module", "register_module", 0, ok, 0, FALSE)
       ELSE /\ pc' = "panicking"
            /\ last' = Outcome("register_module", "none", 0, 0, 0, TRUE)
            /\ UNCHANGED <<registerCalls, registered>>
    /\ UNCHANGED <<table, env, onLoadCalls, entryReturned, scopedLive, retained,
                   staleUse, pltBuffer, pltInstalled>>
    /\ UNCHANGED cvars

ShouldLoadAlways(reg) == TRUE

\* The condition of `if table.register_module.unwrap()(table, module_abi)`.
ShouldLoad(reg) == reg = "ok"

\* ZygiskApi::from_raw(table); module.on_load(api, env).
OnLoadEnter ==
    /\ pc = "registered"
    /\ ShouldLoad(registered)
    /\ scopedLive' = scopedLive + 1
    /\ onLoadCalls' = onLoadCalls + 1
    /\ pc' = "on_load"
    /\ UNCHANGED <<table, env, leaked, registerCalls, registered, entryReturned,
                   retained, staleUse, pltBuffer, pltInstalled, last>>
    /\ UNCHANGED cvars

\* A handle still owned when its scope ends is dropped.
Drop(n) == IF n > 0 THEN n - 1 ELSE 0

OnLoadReturnLeak ==
    /\ pc = "on_load"
    /\ pc' = "loaded"
    /\ UNCHANGED <<table, env, leaked, registerCalls, registered, onLoadCalls,
                   entryReturned, scopedLive, retained, staleUse,
                   pltBuffer, pltInstalled, last>>
    /\ UNCHANGED cvars

\* on_load returns: the handle it received by value goes out of scope,
\* unless retain() already consumed it.
OnLoadReturn ==
    /\ pc = "on_load"
    /\ pc' = "loaded"
    /\ scopedLive' = Drop(scopedLive)
    /\ UNCHANGED <<table, env, leaked, registerCalls, registered, onLoadCalls,
                   entryReturned, retained, staleUse,
                   pltBuffer, pltInstalled, last>>
    /\ UNCHANGED cvars

\* module_entry_impl returns and catch_unwind yields Ok: the entry returns
\* to the host, either after on_load or after a refused registration.
EntryReturn ==
    /\ \/ pc = "loaded"
       \/ pc = "registered" /\ ~ShouldLoad(registered)
    /\ pc' = IF pc = "loaded" THEN "Loaded" ELSE "Rejected"
    /\ entryReturned' = TRUE
    /\ UNCHANGED <<table, env, leaked, registerCalls, registered, onLoadCalls,
                   scopedLive, retained, staleUse,
                   pltBuffer, pltInstalled, last>>
    /\ UNCHANGED cvars

CatchUnwindSwallow ==
    /\ pc = "panicking"
    /\ pc' = "Rejected"
    /\ entryReturned' = TRUE
    /\ UNCHANGED <<table, env, leaked, registerCalls, registered, onLoadCalls,
                   scopedLive, retained, staleUse,
                   pltBuffer, pltInstalled, last>>
    /\ UNCHANGED cvars

\* if let Err(_) = catch_unwind(..) { std::process::abort() }
CatchUnwind ==
    /\ pc = "panicking"
    /\ pc' = "aborted"
    /\ UNCHANGED <<table, env, leaked, registerCalls, registered, onLoadCalls,
                   entryReturned, scopedLive, retained, staleUse,
                   pltBuffer, pltInstalled, last>>
    /\ UNCHANGED cvars

\* ------------------------------------------------ ZygiskApi operations

CallbackPhases == {"on_load", "pre", "post"}

\* Author code runs inside a lifecycle callback and holds a handle: the one
\* passed to the callback, or one it retained earlier.
CanCall == pc \in CallbackPhases /\ (scopedLive > 0 \/ retained)

\* A panic in on_load unwinds into the entry's catch_unwind; one in a
\* specialize callback unwinds into its trampoline.
PanicPc(p) == IF p = "on_load" THEN "panicking" ELSE "panicking_cb"

\* Host: connect_companion only works in the pre-specialize callbacks
\* (SELinux); elsewhere the host reports failure.
HostConnectFds(p) == IF p = "pre" THEN HostFds ELSE {fd \in HostFds : fd < 0}

connect_companion_fd_zero(slot, hostfd) == IF slot THEN hostfd ELSE 0

\* .connect_companion.map(|func| func(this)).unwrap_or(-1)
connect_companion_fd(slot, hostfd) == IF slot THEN hostfd ELSE -1

\* if fd >= 0 { Ok(UnixStream::from_raw_fd(fd)) } else { Err(ZygiskError) }
connect_companion_result(fd) ==
    IF fd >= 0 THEN [ok |-> TRUE, fd |-> fd] ELSE [ok |-> FALSE, fd |-> -1]

connect_companion ==
    /\ CanCall
    /\ \E hostfd \in HostConnectFds(pc) :
          LET slot == table["connect_companion"]
              fd == connect_companion_fd(slot, hostfd)
          IN last' = Outcome("connect_companion",
                             IF slot THEN "connect_companion" ELSE "none",
                             0, connect_companion_result(fd),
                             IF slot THEN hostfd ELSE -1, FALSE)
    /\ UNCHANGED <<table, pc, env, leaked, registerCalls, registered, onLoadCalls,
                   entryReturned, scopedLive, retained, staleUse,
                   pltBuffer, pltInstalled>>
    /\ UNCHANGED cvars

get_module_dir_fd_zero(slot, hostfd) == IF slot THEN hostfd ELSE 0

\* .get_module_dir.map(|func| func(this)).unwrap_or(-1)
get_module_dir_fd(slot, hostfd) == IF slot THEN hostfd ELSE -1

get_module_dir ==
    /\ CanCall
    /\ \E hostfd \in HostFds :
          LET slot == table["get_module_dir"]
          IN last' = Outcome("get_module_dir",
                             IF slot THEN "get_module_dir" ELSE "none",
                             0, get_module_dir_fd(slot, hostfd),
                             IF slot THEN hostfd ELSE -1, FALSE)
    /\ UNCHANGED <<table, pc, env, leaked, registerCalls, registered, onLoadCalls,
                   entryReturned, scopedLive, retained, staleUse,
                   pltBuffer, pltInstalled>>
    /\ UNCHANGED cvars

\* if let Some(func) = self.inner.set_option { func(this, option) }
set_option(option) ==
    /\ CanCall
    /\ last' = Outcome("set_option",
                       IF table["set_option"] THEN "set_option" ELSE "none",
                       option, 0, 0, FALSE)
    /\ UNCHANGED <<table, pc, env, leaked, registerCalls, registered, onLoadCalls,
                   entryReturned, scopedLive, retained, staleUse,
                   pltBuffer, pltInstalled>>
    /\ UNCHANGED cvars

\* if let Some(func) = self.inner.exempt_fd { func(fd) }
exempt_fd(fd) ==
    /\ CanCall
    /\ last' = Outcome("exempt_fd",
                       IF table["exempt_fd"] THEN "exempt_fd" ELSE "none",
                       fd, 0, 0, FALSE)
    /\ UNCHANGED <<table, pc, env, leaked, registerCalls, registered, onLoadCalls,
                   entryReturned, scopedLive, retained, staleUse,
                   pltBuffer, pltInstalled>>
    /\ UNCHANGED cvars

from_bits_retain(raw) == [some |-> TRUE, bits |-> raw]

\* StateFlags::from_bits(raw): None when raw has a bit outside the flag set.
from_bits(raw) ==
    IF BitsOf(raw) \subseteq StateFlagsAll
    THEN [some |-> TRUE, bits |-> raw]
    ELSE [some |-> FALSE, bits |-> 0]

\* .get_flags.map(|func| func(this))
\*     .map(|raw| StateFlags::from_bits(raw).expect(..))
\*     .unwrap_or(StateFlags::empty())
get_flags ==
    /\ CanCall
    /\ IF table["get_flags"]
       THEN \E raw \in RawFlagWords :
               LET r == from_bits(raw)
               IN IF r.some
                  THEN /\ last' = Outcome("get_flags", "get_flags", 0, r.bits, raw, FALSE)
                       /\ pc' = pc
                  ELSE /\ last' = Outcome("get_flags", "get_flags", 0, 0, raw, TRUE)
                       /\ pc' = PanicPc(pc)
       ELSE /\ last' = Outcome("get_flags", "none", 0, 0, 0, FALSE)
            /\ pc' = pc
    /\ UNCHANGED <<table, env, leaked, registerCalls, registered, onLoadCalls,
                   entryReturned, scopedLive, retained, staleUse,
                   pltBuffer, pltInstalled>>
    /\ UNCHANGED cvars

\* The author's descriptor list: every fnPtr holds the replacement function.
Descriptors(k) == [i \in 1 .. k |-> "replacement"]

\* Host: looks up each of the first n descriptors; a matched one gets the
\* original function pointer saved in fnPtr, an unmatched one gets null.
HostHookJni(methods, n, match) ==
    [i \in 1 .. Len(methods) |->
        IF i <= n
        THEN (IF i \in match THEN "original" ELSE "null")
        ELSE methods[i]]

JniLenShort(methods) == Len(methods) - 1

\* methods.len() as jint
JniLen(methods) == Len(methods)

\* if let Some(func) = self.inner.hook_jni_native_methods {
\*     func(env, class_name, methods.as_mut_ptr(), methods.len() as jint) }
hook_jni_native_methods(k, match) ==
    /\ CanCall
    /\ LET methods == Descriptors(k)
       IN IF table["hook_jni_native_methods"]
          THEN last' = Outcome("hook_jni_native_methods", "hook_jni_native_methods",
                               k, HostHookJni(methods, JniLen(methods), match),
                               match, FALSE)
          ELSE last' = Outcome("hook_jni_native_methods", "none",
                               k, methods, match, FALSE)
    /\ UNCHANGED <<table, pc, env, leaked, registerCalls, registered, onLoadCalls,
                   entryReturned, scopedLive, retained, staleUse,
                   pltBuffer, pltInstalled>>
    /\ UNCHANGED cvars

\* if let Some(func) = self.inner.plt_hook_register {
\*     func(device, inode, symbol, new_func, old_func) }
\* Host: the entry joins the pending entries, nothing is patched yet.
\* The author registers an entry once per batch.
plt_hook_register(h) ==
    /\ CanCall
    /\ IF table["plt_hook_register"]
       THEN /\ h \notin pltBuffer
            /\ pltBuffer' = pltBuffer \cup {h}
            /\ last' = Outcome("plt_hook_register", "plt_hook_register", h, 0, 0, FALSE)
       ELSE /\ pltBuffer' = pltBuffer
            /\ last' = Outcome("plt_hook_register", "none", h, 0, 0, FALSE)
    /\ UNCHANGED <<table, pc, env, leaked, registerCalls, registered, onLoadCalls,
                   entryReturned, scopedLive, retained, staleUse,
                   pltInstalled>>
    /\ UNCHANGED cvars

\* Host: commit applies the pending entries and reports false if any error
\* occurred; on success every pending entry is in effect.
HostCommitOutcomes(buf) ==
    {[ok |-> TRUE, applied |-> buf]}
        \cup {[ok |-> FALSE, applied |-> a] : a \in SUBSET buf}

plt_hook_commit_ret_always(slot, hostok) == slot

\* .plt_hook_commit.map(|func| func()).unwrap_or(false)
plt_hook_commit_ret(slot, hostok) == IF slot THEN hostok ELSE FALSE

plt_hook_commit ==
    /\ CanCall
    /\ IF table["plt_hook_commit"]
       THEN \E out \in HostCommitOutcomes(pltBuffer) :
               /\ pltInstalled' = pltInstalled \cup out.applied
               /\ pltBuffer' = {}
               /\ last' = Outcome("plt_hook_commit", "plt_hook_commit", 0,
                                  plt_hook_commit_ret(TRUE, out.ok),
                                  [buffered |-> pltBuffer, applied |-> out.applied],
                                  FALSE)
       ELSE /\ UNCHANGED <<pltInstalled, pltBuffer>>
            /\ last' = Outcome("plt_hook_commit", "none", 0,
                               plt_hook_commit_ret(FALSE, FALSE),
                               [buffered |-> pltBuffer, applied |-> {}],
                               FALSE)
    /\ UNCHANGED <<table, pc, env, leaked, registerCalls, registered, onLoadCalls,
                   entryReturned, scopedLive, retained, staleUse>>
    /\ UNCHANGED cvars

\* unsafe fn retain(self) -> ZygiskApi<'static>: consumes the scoped handle
\* and yields one the author may keep across callbacks.
retain ==
    /\ pc \in CallbackPhases
    /\ scopedLive > 0
    /\ scopedLive' = scopedLive - 1
    /\ retained' = TRUE
    /\ UNCHANGED <<table, pc, env, leaked, registerCalls, registered, onLoadCalls,
                   entryReturned, staleUse, pltBuffer, pltInstalled, last>>
    /\ UNCHANGED cvars

\* The author's callback panics on its own.
AuthorPanic ==
    /\ pc \in CallbackPhases
    /\ pc' = PanicPc(pc)
    /\ last' = Outcome("author_panic", "none", 0, 0, 0, TRUE)
    /\ UNCHANGED <<table, env, leaked, registerCalls, registered, onLoadCalls,
                   entryReturned, scopedLive, retained, staleUse,
                   pltBuffer, pltInstalled>>
    /\ UNCHANGED cvars

\* ------------------------------------------- specialize trampolines

\* The host calls the pre-app/pre-server specialize trampoline, which
\* rebuilds a scoped handle from the table pointer and dispatches.
PreSpecialize ==
    /\ pc = "Loaded"
    /\ pc' = "pre"
    /\ scopedLive' = scopedLive + 1
    /\ last' = NoOp
    /\ UNCHANGED <<table, env, leaked, registerCalls, registered, onLoadCalls,
                   entryReturned, retained, staleUse, pltBuffer, pltInstalled>>
    /\ UNCHANGED cvars

PreReturn ==
    /\ pc = "pre"
    /\ pc' = "PreDone"
    /\ scopedLive' = Drop(scopedLive)
    /\ UNCHANGED <<table, env, leaked, registerCalls, registered, onLoadCalls,
                   entryReturned, retained, staleUse,
                   pltBuffer, pltInstalled, last>>
    /\ UNCHANGED cvars

PostSpecialize ==
    /\ pc = "PreDone"
    /\ pc' = "post"
    /\ scopedLive' = scopedLive + 1
    /\ last' = NoOp
    /\ UNCHANGED <<table, env, leaked, registerCalls, registered, onLoadCalls,
                   entryReturned, retained, staleUse, pltBuffer, pltInstalled>>
    /\ UNCHANGED cvars

\* Post-specialize returns: the host may unload the table from here on.
PostReturn ==
    /\ pc = "post"
    /\ pc' = "Specialized"
    /\ scopedLive' = Drop(scopedLive)
    /\ UNCHANGED <<table, env, leaked, registerCalls, registered, onLoadCalls,
                   entryReturned, retained, staleUse,
                   pltBuffer, pltInstalled, last>>
    /\ UNCHANGED cvars

\* A fault in a specialize callback is turned into process termination.
TrampolineAbort ==
    /\ pc = "panicking_cb"
    /\ pc' = "aborted"
    /\ UNCHANGED <<table, env, leaked, registerCalls, registered, onLoadCalls,
                   entryReturned, scopedLive, retained, staleUse,
                   pltBuffer, pltInstalled, last>>
    /\ UNCHANGED cvars

\* Author code that still holds a handle calls through it after the table
\* was invalidated: undefined behaviour, the process crashes or goes on.
UseAfterSpecialize ==
    /\ pc = "Specialized"
    /\ scopedLive > 0 \/ retained
    /\ staleUse' = IF scopedLive > 0 THEN "scoped" ELSE "retained"
    /\ pc' \in {"Specialized", "aborted"}
    /\ UNCHANGED <<table, env, leaked, registerCalls, registered, onLoadCalls,
                   entryReturned, scopedLive, retained,
                   pltBuffer, pltInstalled, last>>
    /\ UNCHANGED cvars

Next ==
    \/ \E e \in {"valid", "null"} : ModuleEntry(e)
    \/ CastArgs
    \/ RegisterModule
    \/ OnLoadEnter
    \/ OnLoadReturn
    \/ EntryReturn
    \/ CatchUnwind
    \/ connect_companion
    \/ get_module_dir
    \/ \E o \in ZygiskOptions : set_option(o)
    \/ get_flags
    \/ \E fd \in 0 .. MaxFd : exempt_fd(fd)
    \/ \E k \in 0 .. MaxMethods : \E m \in SUBSET (1 .. k) : hook_jni_native_methods(k, m)
    \/ \E h \in Hooks : plt_hook_register(h)
    \/ plt_hook_commit
    \/ retain
    \/ AuthorPanic
    \/ PreSpecialize
    \/ PreReturn
    \/ PostSpecialize
    \/ PostReturn
    \/ TrampolineAbort
    \/ UseAfterSpecialize

Spec == Init /\ [][Next]_vars

\* ---------------------------------------------- companion entry point

\* Invocations whose descriptor is still open and theirs.
Holding(c) == cpc[c] \in {"entered", "wrapped", "handler", "panicking", "returned_open"}

\* zygiskd accepts a connection and calls zygisk_companion_entry(socket_fd)
\* on some thread; the kernel hands out a descriptor not open elsewhere.
CompanionEntry(c, fd) ==
    /\ ~cAborted
    /\ cpc[c] = "idle"
    /\ fd \notin openFds
    /\ openFds' = openFds \cup {fd}
    /\ socket_fd' = [socket_fd EXCEPT ![c] = fd]
    /\ stream' = [stream EXCEPT ![c] = 0]
    /\ observed' = [observed EXCEPT ![c] = 0]
    /\ faulted' = [faulted EXCEPT ![c] = FALSE]
    /\ cpc' = [cpc EXCEPT ![c] = "entered"]
    /\ UNCHANGED cAborted
    /\ UNCHANGED mvars

WrappedFdShared(c) == socket_fd[CHOOSE d \in Conns : Holding(d)]

\* UnixStream::from_raw_fd(socket_fd): the stream wraps the argument.
WrappedFd(c) == socket_fd[c]

CompanionWrap(c) ==
    /\ ~cAborted
    /\ cpc[c] = "entered"
    /\ stream' = [stream EXCEPT ![c] = WrappedFd(c)]
    /\ cpc' = [cpc EXCEPT ![c] = "wrapped"]
    /\ UNCHANGED <<socket_fd, observed, faulted, openFds, cAborted>>
    /\ UNCHANGED mvars

\* catch_unwind(|| _type_check(stream)): the stream is moved into the handler.
CompanionHandler(c) ==
    /\ ~cAborted
    /\ cpc[c] = "wrapped"
    /\ observed' = [observed EXCEPT ![c] = stream[c]]
    /\ stream' = [stream EXCEPT ![c] = 0]
    /\ cpc' = [cpc EXCEPT ![c] = "handler"]
    /\ UNCHANGED <<socket_fd, faulted, openFds, cAborted>>
    /\ UNCHANGED mvars

\* The handler returns; it either dropped the stream (closing the
\* descriptor) or released it unclosed, and the entry returns to zygiskd.
HandlerReturn(c, closed) ==
    /\ ~cAborted
    /\ cpc[c] = "handler"
    /\ openFds' = IF closed THEN openFds \ {observed[c]} ELSE openFds
    /\ cpc' = [cpc EXCEPT ![c] = IF closed THEN "returned_closed" ELSE "returned_open"]
    /\ UNCHANGED <<socket_fd, stream, observed, faulted, cAborted>>
    /\ UNCHANGED mvars

\* zygiskd closes the descriptor if the handler left it open.
HostReap(c) ==
    /\ ~cAborted
    /\ cpc[c] \in {"returned_closed", "returned_open"}
    /\ openFds' = IF cpc[c] = "returned_open" THEN openFds \ {socket_fd[c]} ELSE openFds
    /\ cpc' = [cpc EXCEPT ![c] = "idle"]
    /\ UNCHANGED <<socket_fd, stream, observed, faulted, cAborted>>
    /\ UNCHANGED mvars

HandlerPanic(c) ==
    /\ ~cAborted
    /\ cpc[c] = "handler"
    /\ faulted' = [faulted EXCEPT ![c] = TRUE]
    /\ cpc' = [cpc EXCEPT ![c] = "panicking"]
    /\ UNCHANGED <<socket_fd, stream, observed, openFds, cAborted>>
    /\ UNCHANGED mvars

\* if let Err(_) = catch_unwind(..) { ::std::process::abort() }
CompanionCatch(c) ==
    /\ ~cAborted
    /\ cpc[c] = "panicking"
    /\ cAborted' = TRUE
    /\ cpc' = [cpc EXCEPT ![c] = "aborted"]
    /\ UNCHANGED <<socket_fd, stream, observed, faulted, openFds>>
    /\ UNCHANGED mvars

CompanionNext ==
    \/ \E c \in Conns : \E fd \in CompanionFds : CompanionEntry(c, fd)
    \/ \E c \in Conns : CompanionWrap(c)
    \/ \E c \in Conns : CompanionHandler(c)
    \/ \E c \in Conns : \E closed \in BOOLEAN : HandlerReturn(c, closed)
    \/ \E c \in Conns : HostReap(c)
    \/ \E c \in Conns : HandlerPanic(c)
    \/ \E c \in Conns : CompanionCatch(c)

\* The companion daemon is a process of its own: its table and lifecycle
\* variables play no part.
CompanionInit ==
    /\ Init
    /\ table = [s \in Slots |-> TRUE]

CompanionSpec == CompanionInit /\ [][CompanionNext]_vars

\* ------------------------------------------------------------ properties

\* C1: on_load is invoked only after register_module was called and
\* returned success; after a refusal it is never invoked; on success it is
\* invoked exactly once per entry call.
C1_OnLoadGatedByRegistration ==
    /\ onLoadCalls > 0 => (registerCalls = 1 /\ registered = "ok")
    /\ registered = "refused" => onLoadCalls = 0
    /\ onLoadCalls <= 1
    /\ (entryReturned /\ registered = "ok") => onLoadCalls = 1
    /\ pc = "Rejected" => (registered = "refused" /\ onLoadCalls = 0)

C1_Witness == entryReturned /\ registered = "ok" /\ onLoadCalls = 1

EntryPhases == {"entry", "cast", "on_load"}

\* C2: a panic raised anywhere while the module entry runs (including one
\* from on_load) ends in abort: the entry never returns to the host after it.
C2_FaultEndsInAbort ==
    (last.panic /\ last.phase \in EntryPhases) =>
        (pc \in {"panicking", "aborted"} /\ ~entryReturned)

C2_Witness == pc = "aborted" /\ last.op = "author_panic" /\ last.phase = "on_load"

\* The documented fallback of each handle operation.
Fallback(op) ==
    CASE op = "connect_companion" -> [ok |-> FALSE, fd |-> -1]
      [] op = "get_module_dir" -> -1
      [] op = "get_flags" -> 0
      [] op = "plt_hook_commit" -> FALSE
      [] op = "hook_jni_native_methods" -> Descriptors(last.arg)
      [] OTHER -> 0

\* C3: a handle operation whose slot is absent invokes no host function,
\* returns its documented fallback and does not panic.
C3_AbsentSlotFallback ==
    (last.op \in HandleSlots /\ ~table[last.op]) =>
        /\ last.host = "none"
        /\ ~last.panic
        /\ last.ret = Fallback(last.op)

C3_Witness == last.op = "get_flags" /\ ~table["get_flags"] /\ pc = "pre"

RecognizedWords ==
    {0, PROCESS_GRANTED_ROOT, PROCESS_ON_DENYLIST,
     PROCESS_GRANTED_ROOT + PROCESS_ON_DENYLIST}

\* C4: when the host returns only recognized StateFlags bits, get_flags
\* returns exactly that word and does not panic; with any unrecognized bit
\* it panics and the process goes on to abort, never back to the host.
C4_GetFlagsTermination ==
    (last.op = "get_flags" /\ last.host = "get_flags") =>
        IF last.aux \in RecognizedWords
        THEN ~last.panic /\ last.ret = last.aux
        ELSE /\ last.panic
             /\ pc \in {"panicking", "panicking_cb", "aborted"}
             /\ (last.phase = "on_load" => ~entryReturned)

C4_Witness == last.op = "get_flags" /\ last.panic /\ pc = "aborted" /\ last.aux = 4

NonNullSlots(methods) == {i \in 1 .. Len(methods) : methods[i] # "null"}

NullSlots(methods) == {i \in 1 .. Len(methods) : methods[i] = "null"}

\* C5 as stated: after every hook_jni_native_methods call with K
\* descriptors of which M match, exactly M slots are non-null and K-M null.
C5_Original ==
    last.op = "hook_jni_native_methods" =>
        /\ Cardinality(NonNullSlots(last.ret)) = Cardinality(last.aux)
        /\ Cardinality(NullSlots(last.ret)) = last.arg - Cardinality(last.aux)

\* C5 amended: when the hook slot is present, exactly the M matched slots
\* hold the original pointer and the K-M others hold null; when it is
\* absent the list is left as the author passed it.
C5_HookJniCounts ==
    last.op = "hook_jni_native_methods" =>
        IF table["hook_jni_native_methods"]
        THEN /\ Len(last.ret) = last.arg
             /\ NonNullSlots(last.ret) = last.aux
             /\ NullSlots(last.ret) = (1 .. last.arg) \ last.aux
             /\ \A i \in last.aux : last.ret[i] = "original"
        ELSE last.ret = Descriptors(last.arg)

C5_Witness ==
    /\ last.op = "hook_jni_native_methods"
    /\ table["hook_jni_native_methods"]
    /\ last.arg = 2
    /\ Cardinality(last.aux) = 1

\* C6: connect_companion called outside pre-specialize returns the failure
\* marker; in every phase it returns a stream only when the slot is present
\* and the host returned a non-negative descriptor, which the stream wraps.
C6_ConnectCompanion ==
    last.op = "connect_companion" =>
        /\ last.phase # "pre" => ~last.ret.ok
        /\ last.ret.ok =>
              /\ table["connect_companion"]
              /\ last.aux >= 0
              /\ last.ret.fd = last.aux
        /\ ~last.ret.ok => (~table["connect_companion"] \/ last.aux < 0)

C6_Witness ==
    /\ last.op = "connect_companion"
    /\ last.phase = "post"
    /\ table["connect_companion"]
    /\ ~last.ret.ok

C7_CommitInv ==
    (last.op = "plt_hook_commit" /\ last.ret = TRUE) =>
        /\ last.aux.applied = last.aux.buffered \/ last.aux.applied = {}
        /\ last.aux.applied \subseteq pltInstalled
        /\ pltBuffer = {}

C7_Step ==
    /\ (last'.op = "plt_hook_register" /\ <<last, pltBuffer>>' # <<last, pltBuffer>>) =>
          /\ pltInstalled' = pltInstalled
          /\ table["plt_hook_register"] =>
                /\ pltBuffer' = pltBuffer \cup {last'.arg}
                /\ Cardinality(pltBuffer') = Cardinality(pltBuffer) + 1
          /\ ~table["plt_hook_register"] => pltBuffer' = pltBuffer
    /\ pltInstalled' # pltInstalled => last'.op = "plt_hook_commit"
    /\ ~(pltBuffer \subseteq pltBuffer') => last'.op = "plt_hook_commit"

\* C7: a register call buffers exactly one entry and installs nothing;
\* hooks change only at a commit; after a commit that reports success all
\* buffered entries are in effect (or none) and the buffer is empty.
C7_TwoPhasePlt == []C7_CommitInv /\ [][C7_Step]_vars

C7_Witness ==
    /\ last.op = "plt_hook_commit"
    /\ last.ret = TRUE
    /\ Cardinality(last.aux.buffered) = 2
    /\ last.aux.applied = last.aux.buffered

\* C8: each companion invocation hands its handler the descriptor it
\* received and no descriptor held by another invocation; after a handler
\* fault the invocation never returns, the process aborts.
C8_CompanionIsolation ==
    \A c \in Conns :
        /\ cpc[c] = "wrapped" => stream[c] = socket_fd[c]
        /\ cpc[c] \in {"handler", "panicking"} =>
              /\ observed[c] = socket_fd[c]
              /\ \A d \in Conns \ {c} : Holding(d) => observed[c] # socket_fd[d]
        /\ faulted[c] => cpc[c] \in {"panicking", "aborted"}
        /\ cAborted => \E d \in Conns : faulted[d] /\ cpc[d] = "aborted"

C8_Witness ==
    /\ cpc[1] = "handler"
    /\ cpc[2] = "handler"
    /\ observed[1] # observed[2]

OutsideCallbacks == {"loaded", "Loaded", "Rejected", "PreDone", "Specialized"}

\* C9: no callback-scoped handle is live once its callback returned (the
\* on_load handle is gone before the entry returns), and a handle used after
\* post-specialize returned is one the author obtained through retain.
C9_HandleScoped ==
    /\ pc \in OutsideCallbacks => scopedLive = 0
    /\ staleUse \in {"none", "retained"}
    /\ staleUse = "retained" => retained

C9_Witness ==
    /\ pc = "Specialized"
    /\ onLoadCalls = 1
    /\ scopedLive = 0
    /\ ~retained

\* C10 as stated: for every slot of the raw table, register_module
\* included, a consumer finding the slot absent does not fail: it raises no
\* panic (which would end in process abort).
C10_AbsenceNeverFails ==
    (last.op \in Slots /\ ~table[last.op]) => ~last.panic

====
